---- MODULE Spec2Model ----
(***************************************************************************)
(* OAuth 2.0 Authorization Code + PKCE session controller                  *)
(* (FrappeAuthProvider), its token store (TokenStorage) and the callback   *)
(* route (AuthCallback), as one browser tab.                               *)
(*                                                                         *)
(* An async function is cut at its awaits: every action is one             *)
(* run-to-completion segment of the event loop, from the call (or the      *)
(* arrival of a network response) up to the next await.  A call that is    *)
(* not awaited (logout() in the catch blocks) runs its first segment       *)
(* inside the caller's segment.                                            *)
(***************************************************************************)
EXTENDS Integers, FiniteSets, Sequences, TLC

\* ---------------------------------------------------------------- bounds
MaxTicks == 1        \* clock ticks of one grace window each
MaxLogins == 2       \* login() calls (PKCE attempts generated)
MaxIssued == 2       \* token responses the provider hands out
MaxCallbacks == 2    \* handleCallback invocations in flight at once
MaxExpirySteps == 3   \* stored expiries, in grace windows, of the expiry check
MaxNowSteps == 3      \* clock readings, in grace windows, of the expiry check
MaxRevokes == 2      \* logout sequences suspended on the revoke request

\* ------------------------------------------------------ program constants
\* localStorage/sessionStorage.getItem of an absent key, useState(null)
Null == 0
\* 60 second buffer of isTokenExpired
GraceMs == 60000
\* expiresIn * 1000 of setTokens
MsPerSecond == 1000

\* expires_in (seconds) of a token response
ExpiresInValues == {60, 120}
\* how far the wall clock moves in one step
TickSteps == {GraceMs}
\* the code query parameter of the redirect, when there is one (the handler
\* only passes it on to the provider)
Codes == {1}
\* a state query parameter no login() of this tab generated
Tampered == MaxLogins + 1
\* the state query parameter: missing, generated by a login(), or foreign
States == 0..Tampered
Callbacks == 1..MaxCallbacks
\* the two callers of refreshToken(): initAuth and the consuming application
Callers == {"init", "app"}
\* how a fetch to the provider ends
Outcomes == {"ok", "non2xx", "neterr"}
Failures == Outcomes \ {"ok"}

VARIABLES
    now,        \* Date.now()
    ls,         \* localStorage: the durable keys of STORAGE_KEYS
    ss,         \* sessionStorage: the ephemeral keys of STORAGE_KEYS
    mem,        \* the useState cells of FrappeAuthProvider
    initPc,     \* where initAuth of this page load is
    rf,         \* the refreshToken() invocation of each caller
    cb,         \* the handleCallback invocations in flight
    revokes,    \* logout sequences suspended on revokeToken
    fl,         \* where logoutFromFrappeSession() is
    lg,         \* login() calls suspended in getAuthorizationUrl
    storage,    \* what the platform's localStorage / sessionStorage do
    attempts,   \* PKCE attempts generated so far
    issued,     \* token responses handed out so far
    ev          \* how the call or continuation of the last segment ended

vars ==
    <<now, ls, ss, mem, initPc, rf, cb, revokes, fl, lg, storage, attempts,
      issued, ev>>

\* what localStorage.getItem returns for an absent key, and the empty
\* string: both are falsy
NoText == <<>>

\* Number.prototype.toString of a non-negative integer: its decimal digits
RECURSIVE NumberToString(_)
NumberToString(n) ==
    IF n < 10 THEN <<n>> ELSE Append(NumberToString(n \div 10), n % 10)

\* parseInt of a string of decimal digits
RECURSIVE ParseInt(_)
ParseInt(text) ==
    IF Len(text) = 1 THEN text[1]
    ELSE ParseInt(SubSeq(text, 1, Len(text) - 1)) * 10 + text[Len(text)]

\* ------------------------------------------------------------ initial data
EmptyLs == [access |-> Null, refresh |-> Null, id |-> Null, expiry |-> NoText,
            userinfo |-> Null]
EmptySs == [verifier |-> Null, state |-> Null]
\* useState initial values
InitMem == [isAuthenticated |-> FALSE, isLoading |-> TRUE, userInfo |-> Null,
            idToken |-> Null, accessToken |-> Null]
IdleRf == "idle"
IdleCb == [pc |-> "idle", cv |-> Null]
IdleFl == [pc |-> "idle", token |-> Null]
\* ------------------------------------------------------------ TokenStorage
\* setTokens that forgets the access token key
SetTokens_NoAccess(l, accessToken, refreshToken, idToken, expiresIn, t) ==
    [l EXCEPT !.refresh = IF refreshToken # Null THEN refreshToken ELSE @,
              !.id = IF idToken # Null THEN idToken ELSE @,
              !.expiry = NumberToString(t + expiresIn * MsPerSecond)]

\* setTokens that leaves the stored expiry as it was
SetTokens_KeepsExpiry(l, accessToken, refreshToken, idToken, expiresIn, t) ==
    [l EXCEPT !.access = accessToken,
              !.refresh = IF refreshToken # Null THEN refreshToken ELSE @,
              !.id = IF idToken # Null THEN idToken ELSE @]

\* TokenStorage.setTokens: the refresh and the id token are written only
\* when the response carries them; the expiry is Date.now() + expiresIn*1000
SetTokens(l, accessToken, refreshToken, idToken, expiresIn, t) ==
    [l EXCEPT !.access = accessToken,
              !.refresh = IF refreshToken # Null THEN refreshToken ELSE @,
              !.id = IF idToken # Null THEN idToken ELSE @,
              !.expiry = NumberToString(t + expiresIn * MsPerSecond)]

GetAccessToken(l) == l.access
GetRefreshToken(l) == l.refresh
GetIdToken(l) == l.id
GetUserInfoCache(l) == l.userinfo

\* the expiry compared without the 60 second buffer
IsTokenExpired_NoGrace(l, t) ==
    IF l.expiry = NoText THEN TRUE ELSE t >= ParseInt(l.expiry)

\* the boundary instant counted as not yet expired
IsTokenExpired_Strict(l, t) ==
    IF l.expiry = NoText THEN TRUE ELSE t > ParseInt(l.expiry) - GraceMs

\* a stored expiry that is never looked at
IsTokenExpired_Never(l, t) == FALSE

\* TokenStorage.isTokenExpired
IsTokenExpired(l, t) ==
    IF l.expiry = NoText THEN TRUE ELSE t >= ParseInt(l.expiry) - GraceMs

\* the guard with its negation lost: "token && isTokenExpired()"
StorageIsAuthenticated_Inverted(l, t) ==
    GetAccessToken(l) # Null /\ IsTokenExpired(l, t)

\* TokenStorage.isAuthenticated, and the first guard of handleCallback
StorageIsAuthenticated(l, t) ==
    GetAccessToken(l) # Null /\ ~IsTokenExpired(l, t)

\* setCodeVerifier that stores nothing
SetCodeVerifier_Dropped(s, codeVerifier) == s

SetCodeVerifier(s, codeVerifier) == [s EXCEPT !.verifier = codeVerifier]
\* setState that leaves the stashed state of an earlier call
SetState_Kept(s, state) == IF s.state # Null THEN s ELSE [s EXCEPT !.state = state]

SetState(s, state) == [s EXCEPT !.state = state]
\* getItem without the removeItem
RemoveCodeVerifier_Keeps(s) == s

\* getAndRemoveCodeVerifier / getAndRemoveState: what is left in storage
RemoveCodeVerifier(s) == [s EXCEPT !.verifier = Null]
\* getItem without the removeItem, for the state
RemoveState_Keeps(s) == s

RemoveState(s) == [s EXCEPT !.state = Null]
SetUserInfo(l, info) == [l EXCEPT !.userinfo = info]

\* TokenStorage.clearAll: the five durable keys
ClearAllDurable(l) == EmptyLs
\* TokenStorage.clearAll: the two ephemeral keys
ClearAllEphemeral(s) == EmptySs

\* ------------------------------------------------------------ oauth.ts
\* getUserInfo: the profile the provider returns (one user signs in)
UserProfile == 1
\* decodeIdToken: an id token is numbered after the response that carried
\* it and its payload carries the same number; the provider's responses
\* hold no malformed token
DecodeIdToken(idToken) == idToken
\* the token responses the provider can hand out next
Responses ==
    IF issued >= MaxIssued THEN {} ELSE
    { [access_token |-> issued + 1, refresh_token |-> r, id_token |-> i,
       expires_in |-> e] :
        r \in {Null, issued + 1}, i \in {Null, issued + 1},
        e \in ExpiresInValues }
\* the body of a response that is not a token response
NoResponse == [access_token |-> Null, refresh_token |-> Null,
               id_token |-> Null, expires_in |-> Null]
\* how a token request can end: a token response, or a failure
TokenReplies ==
    {<<"ok", r>> : r \in Responses} \cup {<<o, NoResponse>> : o \in Failures}
\* the query parameters the callback route can be opened with
RouteParams ==
    {<<Null, Tampered>>} \cup {<<code, state>> : code \in Codes, state \in States}

\* revokeToken rejects only when fetch itself throws: a non-2xx response
\* is logged, not thrown
RevokeTokenRejects(outcome) == outcome = "neterr"
\* a token request that resolves with whatever body a non-2xx response has
TokenRequestRejects_NetworkOnly(outcome) == outcome = "neterr"

\* exchangeCodeForToken / refreshAccessToken reject on a network error and
\* on a non-2xx response
TokenRequestRejects(outcome) == outcome # "ok"
\* getUserInfo rejects on a network error and on a non-2xx response
UserInfoRejects(outcome) == outcome # "ok"

\* ------------------------------------------------ the world a segment edits
World == [ls |-> ls, ss |-> ss, mem |-> mem, revokes |-> revokes]

\* the four setters at the end of logout
ResetSession(m) ==
    [m EXCEPT !.isAuthenticated = FALSE, !.userInfo = Null,
              !.idToken = Null, !.accessToken = Null]

\* logout, from "Clear all local tokens and state" on
LogoutPurge(w) ==
    [w EXCEPT !.ls = ClearAllDurable(w.ls),
              !.ss = ClearAllEphemeral(w.ss),
              !.mem = ResetSession(w.mem)]

\* the revoke request sent whether or not a token is stored
LogoutRevokes_Always(w) == TRUE

\* logout revokes when a durable access token is stored
LogoutRevokes(w) == GetAccessToken(w.ls) # Null

\* logout up to its first await: with a stored token it issues the revoke
\* request and suspends; without one it runs to its end
LogoutCall(w) ==
    IF LogoutRevokes(w)
    THEN [w EXCEPT !.revokes = @ + 1]
    ELSE LogoutPurge(w)

\* revokeToken awaited outside any try/catch
LogoutCatches_None(rejected) == FALSE

\* the try/catch around revokeToken in logout: a rejection is caught
LogoutCatches(rejected) == TRUE

\* loadUserInfo after getUserInfo settled
LoadUserInfoResume(w, outcome) ==
    IF UserInfoRejects(outcome)
    THEN w
    ELSE LET info == UserProfile
             l2 == SetUserInfo(w.ls, info)
             storedIdToken == GetIdToken(l2)
         IN  [w EXCEPT !.ls = l2,
                       !.mem = [@ EXCEPT !.userInfo = info,
                                         !.idToken =
                                            IF storedIdToken # Null
                                            THEN DecodeIdToken(storedIdToken)
                                            ELSE @]]

\* refreshToken / handleCallback after the token request resolved
StoreAndAuthenticate(w, response) ==
    [w EXCEPT !.ls = SetTokens(w.ls, response.access_token,
                               response.refresh_token, response.id_token,
                               response.expires_in, now),
              !.mem = [@ EXCEPT !.accessToken = response.access_token,
                                !.isAuthenticated = TRUE]]

\* a segment's world becomes the next state
Commit(w) ==
    /\ ls' = w.ls
    /\ ss' = w.ss
    /\ mem' = w.mem
    /\ revokes' = w.revokes

Init ==
    /\ now = 0
    /\ ls = EmptyLs
    /\ ss = EmptySs
    /\ mem = InitMem
    /\ initPc = "start"
    /\ rf = [c \in Callers |-> IdleRf]
    /\ cb = [i \in Callbacks |-> IdleCb]
    /\ revokes = 0
    /\ fl = IdleFl
    /\ lg = {}
    /\ storage = "available"
    /\ attempts = 0
    /\ issued = 0
    /\ ev = "none"

\* ---------------------------------------------------------- environment
\* the consuming pages render a spinner while isLoading: they call login(),
\* logout() and refreshToken() once the provider has finished restoring
AppCanCall == ~mem.isLoading

\* the wall clock moves
Tick(d) ==
    /\ now + d <= MaxTicks * GraceMs
    /\ now' = now + d
    /\ ev' = "none"
    /\ UNCHANGED <<ls, ss, mem, initPc, rf, cb, revokes, attempts,
                  issued, fl, storage, lg>>

\* a full page load (reload, or the end of a window.location navigation):
\* the provider mounts again with its initial state, what was in flight is
\* gone, both storages survive
PageLoad ==
    /\ mem' = InitMem
    /\ initPc' = "start"
    /\ rf' = [c \in Callers |-> IdleRf]
    /\ cb' = [i \in Callbacks |-> IdleCb]
    /\ revokes' = 0
    /\ fl' = IdleFl
    /\ lg' = {}
    /\ ev' = "page_load"
    /\ UNCHANGED <<now, ls, ss, attempts, issued, storage>>

\* ------------------------------------------------------------ refreshToken
\* refreshToken without its "No refresh token available" guard
RefreshCall_NoGuard(c) ==
    /\ rf[c] = "idle"
    /\ rf' = [rf EXCEPT ![c] = "refresh"]
    /\ ev' = "none"

\* refreshToken up to its first await, called by c: without a stored
\* refresh token it throws, with one it issues the refresh request
RefreshCall(c) ==
    /\ rf[c] = "idle"
    /\ IF GetRefreshToken(ls) = Null
       THEN /\ rf' = rf
            /\ ev' = "threw_no_refresh_token"
       ELSE /\ rf' = [rf EXCEPT ![c] = "refresh"]
            /\ ev' = "none"

\* the continuation of initAuth once its refreshToken() settled: the catch
\* block calls logout(), then setIsLoading(false)
InitAfterRefresh(w, c, threw) ==
    IF c # "init" THEN w
    ELSE LET w1 == IF threw THEN LogoutCall(w) ELSE w
         IN  [w1 EXCEPT !.mem = [@ EXCEPT !.isLoading = FALSE]]

\* a catch block that only logs and rethrows
RefreshCatch_NoLogout(w) == w

\* the catch block of refreshToken: logout() is called and not awaited,
\* then the error is rethrown
RefreshCatch(w) == LogoutCall(w)

\* refreshToken after refreshAccessToken settled
RefreshSettled(c, outcome, response) ==
    /\ rf[c] = "refresh"
    /\ IF TokenRequestRejects(outcome)
       THEN LET w == InitAfterRefresh(RefreshCatch(World), c, TRUE)
            IN  /\ w.revokes <= MaxRevokes
                /\ Commit(w)
                /\ rf' = [rf EXCEPT ![c] = IdleRf]
                /\ initPc' = IF c = "init" THEN "done" ELSE initPc
                /\ issued' = issued
                /\ ev' = "threw_refresh_failed"
       ELSE LET w == StoreAndAuthenticate(World, response)
            IN  /\ Commit(w)
                /\ rf' = [rf EXCEPT ![c] = "lui"]
                /\ initPc' = initPc
                /\ issued' = issued + 1
                /\ ev' = "none"
    /\ UNCHANGED <<now, cb, attempts, fl, storage, lg>>

\* refreshToken after its loadUserInfo settled: it returns
RefreshLoaded(c, outcome) ==
    /\ rf[c] = "lui"
    /\ Commit(InitAfterRefresh(LoadUserInfoResume(World, outcome), c, FALSE))
    /\ ev' = "refresh_returned"
    /\ rf' = [rf EXCEPT ![c] = IdleRf]
    /\ initPc' = IF c = "init" THEN "done" ELSE initPc
    /\ UNCHANGED <<now, cb, attempts, issued, fl, storage, lg>>

\* the consuming application calls refreshToken()
RefreshToken ==
    /\ AppCanCall
    /\ RefreshCall("app")
    /\ UNCHANGED <<now, ls, ss, mem, initPc, cb, revokes, attempts,
                  issued, fl, storage, lg>>

\* ---------------------------------------------------------------- initAuth
\* initAuth up to its first await
InitAuth ==
    /\ initPc = "start"
    /\ LET token == GetAccessToken(ls)
       IN  IF token # Null /\ ~IsTokenExpired(ls, now)
           THEN LET cachedUserInfo == GetUserInfoCache(ls)
                IN  /\ mem' = [mem EXCEPT
                                !.accessToken = token,
                                !.isAuthenticated = TRUE,
                                !.userInfo = IF cachedUserInfo # Null
                                             THEN cachedUserInfo ELSE @]
                    /\ initPc' = "lui"
                    /\ rf' = rf
                    /\ ev' = "none"
           ELSE IF token # Null /\ GetRefreshToken(ls) # Null
           THEN /\ RefreshCall("init")
                /\ initPc' = "refresh"
                /\ mem' = mem
           ELSE /\ mem' = [mem EXCEPT !.isLoading = FALSE]
                /\ initPc' = "done"
                /\ rf' = rf
                /\ ev' = "none"
    /\ UNCHANGED <<now, ls, ss, cb, revokes, attempts, issued, fl, storage,
                   lg>>

\* initAuth after loadUserInfo(token) settled
InitLoaded(outcome) ==
    /\ initPc = "lui"
    /\ LET w == LoadUserInfoResume(World, outcome)
       IN  Commit([w EXCEPT !.mem = [@ EXCEPT !.isLoading = FALSE]])
    /\ initPc' = "done"
    /\ ev' = "none"
    /\ UNCHANGED <<now, rf, cb, attempts, issued, fl, storage, lg>>


\* ------------------------------------------------------------------- login
\* login up to its await: getAuthorizationUrl draws the verifier and waits
\* for its digest; nothing is stored yet
Login ==
    /\ AppCanCall
    /\ attempts < MaxLogins
    /\ attempts' = attempts + 1
    /\ lg' = lg \cup {attempts + 1}
    /\ ev' = "none"
    /\ UNCHANGED <<now, ls, ss, mem, initPc, rf, cb, revokes, issued, fl,
                   storage>>

\* login after getAuthorizationUrl resolved: the state has been drawn, the
\* verifier and the state of this call are stashed and the browser is sent
\* to the provider
LoginStash(a) ==
    /\ a \in lg
    /\ lg' = lg \ {a}
    /\ ss' = SetState(SetCodeVerifier(ss, a), a)
    /\ ev' = "login_navigated"
    /\ UNCHANGED <<now, ls, mem, initPc, rf, cb, revokes, issued, fl,
                   storage, attempts>>

\* ---------------------------------------------------------- handleCallback
\* the verifier key taken for present whatever sessionStorage holds
CodeVerifierExists_Always(s) == TRUE

\* "Check if code verifier exists BEFORE removing it": getItem is not null
CodeVerifierExists(s) == s.verifier # Null

\* the state check left out
CsrfMismatch_Never(state, storedState) == FALSE

\* "Verify state for CSRF protection"
CsrfMismatch(state, storedState) ==
    state # Null /\ storedState # Null /\ state # storedState

\* the results with which handleCallback returns to the route
Returned == {"returned", "noop_authenticated", "noop_no_verifier"}
\* the results that put the route on its error screen
Threw == {"route_error", "threw_csrf", "threw_missing_verifier",
          "threw_exchange_failed"}

\* an invocation ends: the route pushes the dashboard when the handler
\* returned and shows its error screen when it threw
CallbackEnds(i, res) ==
    /\ cb' = [cb EXCEPT ![i] = IdleCb]
    /\ ev' = res

\* the attempt dropped with TokenStorage.clearAll(), which also removes
\* the durable keys
TakeAttempt_ClearAll(w) ==
    [w EXCEPT !.ss = ClearAllEphemeral(w.ss), !.ls = ClearAllDurable(w.ls)]

\* the state taken and the verifier only read
TakeAttempt_StateOnly(w) == [w EXCEPT !.ss = RemoveState(w.ss)]

\* getAndRemoveState, getAndRemoveCodeVerifier: what handleCallback leaves
\* behind
TakeAttempt(w) == [w EXCEPT !.ss = RemoveCodeVerifier(RemoveState(w.ss))]

\* the effect of AuthCallback: the route's own checks, then handleCallback
\* up to its first await
AuthCallback(i, code, state) ==
    /\ cb[i].pc = "idle"
    /\ \A j \in Callbacks : j < i => cb[j].pc # "idle"
    /\ IF code = Null \/ state = Null
       THEN /\ CallbackEnds(i, "route_error")
            /\ Commit(World)
       ELSE IF StorageIsAuthenticated(ls, now)
       THEN /\ CallbackEnds(i, "noop_authenticated")
            /\ Commit(World)
       ELSE IF ~CodeVerifierExists(ss)
       THEN /\ CallbackEnds(i, "noop_no_verifier")
            /\ Commit(World)
       ELSE LET storedState == ss.state
                codeVerifier == ss.verifier
            IN  /\ Commit(TakeAttempt(World))
                /\ IF CsrfMismatch(state, storedState)
                   THEN CallbackEnds(i, "threw_csrf")
                   ELSE IF codeVerifier = Null
                   THEN CallbackEnds(i, "threw_missing_verifier")
                   ELSE /\ cb' = [cb EXCEPT ![i] =
                                    [pc |-> "exchange", cv |-> codeVerifier]]
                        /\ ev' = "none"
    /\ UNCHANGED <<now, initPc, rf, attempts, issued, fl, storage, lg>>

\* handleCallback after exchangeCodeForToken settled; a response arrives in
\* a later task than the mount effects, of which initAuth is one
CallbackExchanged(i, outcome, response) ==
    /\ cb[i].pc = "exchange"
    /\ initPc # "start"
    /\ IF TokenRequestRejects(outcome)
       THEN /\ CallbackEnds(i, "threw_exchange_failed")
            /\ UNCHANGED <<ls, ss, mem, revokes, issued>>
       ELSE /\ Commit(StoreAndAuthenticate(World, response))
            /\ issued' = issued + 1
            /\ cb' = [cb EXCEPT ![i] = [pc |-> "lui", cv |-> Null]]
            /\ ev' = "none"
    /\ UNCHANGED <<now, initPc, rf, attempts, fl, storage, lg>>

\* handleCallback after its loadUserInfo settled: it returns
CallbackLoaded(i, outcome) ==
    /\ cb[i].pc = "lui"
    /\ Commit(LoadUserInfoResume(World, outcome))
    /\ CallbackEnds(i, "returned")
    /\ UNCHANGED <<now, initPc, rf, attempts, issued, fl, storage, lg>>

\* "Try Logging In Again" on the error screen the last segment brought up:
\* sessionStorage.clear(), and the route is left for /login
RetryLogin ==
    /\ ev \in Threw
    /\ ss' = EmptySs
    /\ ev' = "none"
    /\ UNCHANGED <<now, ls, mem, initPc, rf, cb, revokes, attempts,
                  issued, fl, storage, lg>>

\* ------------------------------------------------------------------ logout
\* the consuming application calls logout()
Logout ==
    /\ AppCanCall
    /\ LET w == LogoutCall(World)
       IN  /\ w.revokes <= MaxRevokes
           /\ Commit(w)
           /\ ev' = IF w.revokes > revokes THEN "logout_revoking"
                    ELSE "logout_returned_sync"
    /\ UNCHANGED <<now, initPc, rf, cb, attempts, issued, fl, storage, lg>>

\* logout after revokeToken settled
LogoutResume(outcome) ==
    /\ revokes > 0
    /\ LET rejected == RevokeTokenRejects(outcome)
           w == [World EXCEPT !.revokes = @ - 1]
       IN  IF rejected /\ ~LogoutCatches(rejected)
           THEN /\ Commit(w)
                /\ ev' = "logout_threw"
           ELSE /\ Commit(LogoutPurge(w))
                /\ ev' = "logout_returned"
    /\ UNCHANGED <<now, initPc, rf, cb, attempts, issued, fl, storage, lg>>

\* ------------------------------------------------- logoutFromFrappeSession
\* how the hidden iframe can end: it loads, or it fails to load
IframeEvents == {"load", "error"}

\* the consuming application calls logoutFromFrappeSession(): the access
\* token is read, the hidden iframe is appended, and the call waits for it
LogoutFromFrappeSession ==
    /\ AppCanCall
    /\ fl = IdleFl
    /\ fl' = [pc |-> "iframe", token |-> GetAccessToken(ls)]
    /\ ev' = "frappe_logout_waiting"
    /\ UNCHANGED <<now, ls, ss, mem, initPc, rf, cb, revokes,
                   attempts, issued, storage, lg>>

\* logoutFromFrappeSession after logoutFromFrappe resolved: with the token
\* read at the call it issues the revoke request and suspends (what follows
\* the request is the text of logout, page.tsx:1327-1342 = 1295-1311);
\* without one it clears and returns
FrappeLogoutResume ==
    LET w == IF fl.token # Null
             THEN [World EXCEPT !.revokes = @ + 1]
             ELSE LogoutPurge(World)
    IN  /\ w.revokes <= MaxRevokes
        /\ Commit(w)
        /\ fl' = IdleFl
        /\ ev' = IF fl.token # Null THEN "frappe_logout_revoking"
                 ELSE "frappe_logout_returned"
        /\ UNCHANGED <<now, initPc, rf, cb, attempts, issued, storage, lg>>

\* iframe.onload arms the 500 ms timer; iframe.onerror removes the iframe
\* and resolves at once
IframeSettled(event) ==
    /\ fl.pc = "iframe"
    /\ IF event = "load"
       THEN /\ fl' = [fl EXCEPT !.pc = "timer"]
            /\ ev' = "none"
            /\ UNCHANGED <<now, ls, ss, mem, initPc, rf, cb, revokes,
                           attempts, issued, storage, lg>>
       ELSE FrappeLogoutResume

\* the 500 ms timer of iframe.onload fires: the iframe is removed and
\* logoutFromFrappe resolves
IframeTimer ==
    /\ fl.pc = "timer"
    /\ FrappeLogoutResume

\* ------------------------------------------------------------------- steps
Next ==
    \/ \E d \in TickSteps : Tick(d)
    \/ PageLoad
    \/ InitAuth
    \/ \E o \in Outcomes : InitLoaded(o)
    \/ RefreshToken
    \/ \E c \in Callers, reply \in TokenReplies :
          RefreshSettled(c, reply[1], reply[2])
    \/ \E c \in Callers, o \in Outcomes : RefreshLoaded(c, o)
    \/ Login
    \/ \E a \in 1..MaxLogins : LoginStash(a)
    \/ \E i \in Callbacks, q \in RouteParams : AuthCallback(i, q[1], q[2])
    \/ \E i \in Callbacks, reply \in TokenReplies :
          CallbackExchanged(i, reply[1], reply[2])
    \/ \E i \in Callbacks, o \in Outcomes : CallbackLoaded(i, o)
    \/ RetryLogin
    \/ Logout
    \/ \E o \in Outcomes : LogoutResume(o)

Spec == Init /\ [][Next]_vars

\* a revoke request that is in flight settles (a response or a network
\* error), and the event loop then runs the rest of logout
FairSpec == Spec /\ WF_vars(\E o \in Outcomes : LogoutResume(o))


\* the session controller with logoutFromFrappeSession as well
FrappeNext ==
    \/ Next
    \/ LogoutFromFrappeSession
    \/ \E event \in IframeEvents : IframeSettled(event)
    \/ IframeTimer

\* an armed timer fires and a revoke request in flight settles; nothing
\* makes the hidden iframe load or fail
FrappeSpec ==
    /\ Init
    /\ [][FrappeNext]_vars
    /\ WF_vars(IframeTimer)
    /\ WF_vars(\E o \in Outcomes : LogoutResume(o))

\* ------------------------------------------ the expiry check on its own
\* instants one millisecond around the multiples of the grace window
AroundWindows(k) ==
    {w * GraceMs + d : w \in 0..k, d \in {0 - 1, 0, 1}} \cap Nat
\* the expiries found in storage: none, or the text of an instant
StoredExpiries ==
    {NoText} \cup {NumberToString(n) : n \in AroundWindows(MaxExpirySteps)}
\* the readings of Date.now()
ClockReadings == AroundWindows(MaxNowSteps)

\* any clock reading, any stored expiry
ExpiryInit ==
    /\ now \in ClockReadings
    /\ ls \in {[EmptyLs EXCEPT !.expiry = x] : x \in StoredExpiries}
    /\ ss = EmptySs
    /\ mem = InitMem
    /\ initPc = "start"
    /\ rf = [c \in Callers |-> IdleRf]
    /\ cb = [i \in Callbacks |-> IdleCb]
    /\ revokes = 0
    /\ fl = IdleFl
    /\ lg = {}
    /\ storage = "available"
    /\ attempts = 0
    /\ issued = 0
    /\ ev = "none"

\* TokenStorage.setTokens called at the current instant
SetTokensCall(expiresIn) ==
    /\ ls' = SetTokens(ls, 1, Null, Null, expiresIn, now)
    /\ ev' = "none"
    /\ UNCHANGED <<now, ss, mem, initPc, rf, cb, revokes, attempts,
                  issued, fl, storage, lg>>

\* TokenStorage.isTokenExpired called at the current instant
IsTokenExpiredCall ==
    /\ ev' = IF IsTokenExpired(ls, now) THEN "expired" ELSE "not_expired"
    /\ UNCHANGED <<now, ls, ss, mem, initPc, rf, cb, revokes,
                  attempts, issued, fl, storage, lg>>

ExpiryNext ==
    \/ \E e \in ExpiresInValues : SetTokensCall(e)
    \/ IsTokenExpiredCall

ExpirySpec == ExpiryInit /\ [][ExpiryNext]_vars

\* ----------------------------------------------- TokenStorage on its own
\* what the platform's storage does: it works; there is no window (server
\* render); every access throws (site data blocked); setItem throws (quota
\* exceeded, private browsing) while reads and removals work
StorageModes == {"available", "no_window", "denied", "full"}

\* the methods of TokenStorage
StorageReads ==
    {"getAccessToken", "getRefreshToken", "getIdToken", "getUserInfo"}
StorageTakes == {"getAndRemoveCodeVerifier", "getAndRemoveState"}
StorageWrites == {"setTokens", "setUserInfo", "setCodeVerifier", "setState"}
StorageOps ==
    StorageReads \cup StorageTakes \cup StorageWrites
        \cup {"isTokenExpired", "clearAll"}

\* what a read or a take returns when storage works
StorageValue(op) ==
    CASE op = "getAccessToken" -> GetAccessToken(ls)
      [] op = "getRefreshToken" -> GetRefreshToken(ls)
      [] op = "getIdToken" -> GetIdToken(ls)
      [] op = "getUserInfo" -> GetUserInfoCache(ls)
      [] op = "getAndRemoveCodeVerifier" -> ss.verifier
      [] op = "getAndRemoveState" -> ss.state

\* durable storage after the method, when storage works
StorageDurableAfter(op, expiresIn) ==
    CASE op = "setTokens" -> SetTokens(ls, 1, 1, Null, expiresIn, now)
      [] op = "setUserInfo" -> SetUserInfo(ls, UserProfile)
      [] op = "clearAll" -> ClearAllDurable(ls)
      [] OTHER -> ls

\* ephemeral storage after the method, when storage works
StorageEphemeralAfter(op) ==
    CASE op = "setCodeVerifier" -> SetCodeVerifier(ss, 1)
      [] op = "setState" -> SetState(ss, 1)
      [] op = "getAndRemoveCodeVerifier" -> RemoveCodeVerifier(ss)
      [] op = "getAndRemoveState" -> RemoveState(ss)
      [] op = "clearAll" -> ClearAllEphemeral(ss)
      [] OTHER -> ss

\* the method throws: nothing in TokenStorage catches what getItem,
\* setItem or removeItem throw
StorageThrows(op) ==
    \/ storage = "denied"
    \/ storage = "full" /\ op \in StorageWrites

\* how the method returns
StorageReturn(op) ==
    IF op = "isTokenExpired"
    THEN IF storage = "no_window" \/ IsTokenExpired(ls, now)
         THEN "returned_true" ELSE "returned_false"
    ELSE IF op \in StorageReads \cup StorageTakes
    THEN IF storage = "no_window" \/ StorageValue(op) = Null
         THEN "returned_empty" ELSE "returned_value"
    ELSE "returned"

\* one call of a TokenStorage method
TokenStorageCall(op, expiresIn) ==
    /\ IF StorageThrows(op)
       THEN /\ ev' = "threw"
            /\ UNCHANGED <<ls, ss>>
       ELSE /\ ev' = StorageReturn(op)
            /\ IF storage = "no_window"
               THEN UNCHANGED <<ls, ss>>
               ELSE /\ ls' = StorageDurableAfter(op, expiresIn)
                    /\ ss' = StorageEphemeralAfter(op)
    /\ UNCHANGED <<now, mem, initPc, rf, cb, revokes, fl, storage, attempts,
                   issued, lg>>

\* any storage mode, any clock reading, storage empty
StorageInit ==
    /\ storage \in StorageModes
    /\ now \in {0, GraceMs}
    /\ ls = EmptyLs
    /\ ss = EmptySs
    /\ mem = InitMem
    /\ initPc = "start"
    /\ rf = [c \in Callers |-> IdleRf]
    /\ cb = [i \in Callbacks |-> IdleCb]
    /\ revokes = 0
    /\ fl = IdleFl
    /\ lg = {}
    /\ attempts = 0
    /\ issued = 0
    /\ ev = "none"

StorageNext ==
    \E op \in StorageOps, e \in ExpiresInValues : TokenStorageCall(op, e)

StorageSpec == StorageInit /\ [][StorageNext]_vars

\* ------------------------------------------- handleCallback on its own
\* what handleCallback can find in sessionStorage: the verifier and the
\* state are two items, each present or absent whatever the other is
StashedPairs == [verifier : 0..MaxLogins, state : 0..MaxLogins]
\* durable storage without a valid token: nothing, or a token set whose
\* access token has expired
UnusableDurable ==
    {EmptyLs, SetTokens(EmptyLs, 1, Null, Null, GraceMs \div MsPerSecond, 0)}

\* the provider has restored an Anonymous session; the callback route is
\* mounted over any content of sessionStorage
HandlerInit ==
    /\ now = 0
    /\ ls \in UnusableDurable
    /\ ss \in StashedPairs
    /\ mem = [InitMem EXCEPT !.isLoading = FALSE]
    /\ initPc = "done"
    /\ rf = [c \in Callers |-> IdleRf]
    /\ cb = [i \in Callbacks |-> IdleCb]
    /\ revokes = 0
    /\ fl = IdleFl
    /\ lg = {}
    /\ storage = "available"
    /\ attempts = MaxLogins
    /\ issued = IF ls = EmptyLs THEN 0 ELSE 1
    /\ ev = "none"

HandlerNext ==
    \/ \E i \in Callbacks, q \in RouteParams : AuthCallback(i, q[1], q[2])
    \/ \E i \in Callbacks, reply \in TokenReplies :
          CallbackExchanged(i, reply[1], reply[2])
    \/ \E i \in Callbacks, o \in Outcomes : CallbackLoaded(i, o)

HandlerSpec == HandlerInit /\ [][HandlerNext]_vars

\* ===================================================================
\* Properties
\* ===================================================================
\* the segment is a call of handleCallback(code, state) by the route
HandlerCalled(state) ==
    \E i \in Callbacks, code \in Codes : AuthCallback(i, code, state)

\* a durable access token is present and not expired (60 s grace)
ValidToken ==
    /\ ls.access # Null
    /\ ls.expiry # NoText
    /\ now < ParseInt(ls.expiry) - GraceMs

\* a PKCE attempt is stashed
AttemptStashed == ss.verifier # Null

\* the segment put an exchange request in flight
ExchangeIssued ==
    \E i \in Callbacks : cb[i].pc = "idle" /\ cb'[i].pc = "exchange"

\* the in-memory session of a signed-out user
Anonymous(m) ==
    /\ ~m.isAuthenticated
    /\ m.accessToken = Null
    /\ m.userInfo = Null
    /\ m.idToken = Null

\* C1: a handleCallback(code, state) call made with no valid durable token
\* and a stashed attempt throws the CSRF error and issues no exchange
\* request when state differs from the stashed state, and issues the
\* exchange request (with the stashed verifier) when it equals it.
C1_CsrfBinding ==
    [][\A state \in States \ {Null} :
          (AttemptStashed /\ ~ValidToken /\ HandlerCalled(state)) =>
             IF state # ss.state
             THEN ev' = "threw_csrf" /\ ~ExchangeIssued /\ cb' = cb
             ELSE /\ ExchangeIssued
                  /\ \A i \in Callbacks :
                        cb'[i] # cb[i] => cb'[i].cv = ss.verifier]_vars

\* a callback with a foreign state was rejected after the attempt was taken
C1_Witness == ev = "threw_csrf" /\ ss = EmptySs /\ attempts > 0

\* C2: the segment in which handleCallback throws the CSRF error leaves the
\* durable keys and the in-memory session as they were.
C2_CsrfLeavesSession ==
    [][ev' = "threw_csrf" => (ls' = ls /\ mem' = mem /\ revokes' = revokes)]_vars

\* Scenario D: the CSRF error with nothing stored and nobody signed in
C2_Witness == ev = "threw_csrf" /\ ls = EmptyLs /\ Anonymous(mem)

\* C3: a handleCallback call made while the stored access token is present
\* and not expired returns, issues no request and changes neither storage
\* nor the session.
C3_SecondCallbackNoop ==
    [][\A state \in States \ {Null} :
          (ValidToken /\ HandlerCalled(state)) =>
             /\ ev' = "noop_authenticated"
             /\ ~ExchangeIssued
             /\ cb' = cb /\ rf' = rf /\ revokes' = revokes
             /\ ls' = ls /\ ss' = ss /\ mem' = mem]_vars

\* a second callback was skipped in a signed-in session
C3_Witness ==
    ev = "noop_authenticated" /\ mem.isAuthenticated /\ ls.access # Null

\* C4: the segment of handleCallback that reads the stashed attempt leaves
\* neither key in sessionStorage, whatever its outcome; an attempt that is
\* in flight in an exchange is not in sessionStorage; and an attempt once
\* gone from sessionStorage never comes back (an attempt is stashed once,
\* by the login() call that generated it).
C4_AttemptSingleUse ==
    [][/\ \A state \in States \ {Null} :
             (AttemptStashed /\ ~ValidToken /\ HandlerCalled(state)) =>
                (ss'.verifier = Null /\ ss'.state = Null)
       /\ \A i \in Callbacks :
             cb'[i].pc = "exchange" =>
                (ss'.verifier # cb'[i].cv /\ ss'.state # cb'[i].cv)
       /\ \A v \in (1..attempts) \ lg :
             /\ ss.verifier # v => ss'.verifier # v
             /\ ss.state # v => ss'.state # v]_vars

\* the exchange of a taken attempt failed and the attempt is gone
C4_Witness == ev = "threw_exchange_failed" /\ ss = EmptySs

\* C5: in every reachable state, authenticated = true implies that a
\* durable access token is stored.
C5_AuthenticatedHasDurableToken ==
    mem.isAuthenticated => ls.access # Null

\* a session authenticated by a refresh that has just stored its tokens
C5_Witness ==
    mem.isAuthenticated /\ rf["app"] = "lui" /\ ls.access = mem.accessToken


\* the stored token is expired under the 60 second grace rule
ExpiredUnderGrace(l, t) ==
    l.expiry = NoText \/ t >= ParseInt(l.expiry) - GraceMs

\* the segment is the one of initAuth that authenticates from storage
RestoredFromStorage == initPc = "start" /\ initPc' = "lui"

\* the segment stored a token response (handleCallback or refreshToken)
StoredResponse == issued' = issued + 1

\* C6 as stated: authenticated = true implies a non-empty in-memory access
\* token, and in every segment that sets authenticated the token is not
\* expired under the 60 second grace rule.
C6_Original ==
    [][/\ mem'.isAuthenticated => mem'.accessToken # Null
       /\ (RestoredFromStorage \/ StoredResponse) =>
             (mem'.isAuthenticated /\ ~ExpiredUnderGrace(ls', now'))]_vars

\* C6 as amended: authenticated = true implies a non-empty in-memory access
\* token; the startup segment sets authenticated only for a stored token
\* that is not expired under the grace rule; handleCallback and
\* refreshToken set it for the token they have just stored, with expiry
\* now + expires_in * 1000 and without an expiry check.
C6_AuthenticatedHasToken ==
    [][/\ mem'.isAuthenticated => mem'.accessToken # Null
       /\ RestoredFromStorage =>
             /\ mem'.isAuthenticated
             /\ mem'.accessToken = ls'.access
             /\ ~ExpiredUnderGrace(ls', now')
       /\ StoredResponse =>
             /\ mem'.isAuthenticated
             /\ mem'.accessToken = ls'.access
             /\ ls'.access = issued'
             /\ \E e \in ExpiresInValues :
                   ls'.expiry = NumberToString(now + e * MsPerSecond)]_vars

\* a session authenticated with a token stored already inside its grace
\* window
C6_Witness ==
    /\ mem.isAuthenticated
    /\ mem.accessToken = ls.access
    /\ ExpiredUnderGrace(ls, now)
    /\ \E i \in Callbacks : cb[i].pc = "lui"

\* every durable key is gone and the session is Anonymous
Purged == ls = EmptyLs /\ Anonymous(mem)

\* C7: when the refresh request fails, refreshToken throws, starts a logout
\* in the same segment and issues no further refresh request; and, the
\* page living on, the session then becomes Anonymous with every durable
\* key removed.
C7_FailedRefreshLogsOut ==
    /\ [][ev' = "threw_refresh_failed" =>
             /\ \A c \in Callers : rf'[c] = "refresh" => rf[c] = "refresh"
             /\ revokes' > revokes \/ (ls' = EmptyLs /\ Anonymous(mem'))]_vars
    /\ (ev = "threw_refresh_failed") ~> (Purged \/ ev = "page_load")

\* a refresh failed and the logout it started waits for the revoke request
C7_Witness ==
    ev = "threw_refresh_failed" /\ revokes > 0 /\ ls.refresh # Null

\* C8: refreshToken() called with no durable refresh token throws the
\* no-refresh-token error, puts no request in flight, starts no logout and
\* leaves both storages and the session as they were.
C8_NoRefreshToken ==
    [][(ls.refresh = Null /\ RefreshToken) =>
          /\ ev' = "threw_no_refresh_token"
          /\ rf' = rf /\ revokes' = revokes /\ cb' = cb
          /\ ls' = ls /\ ss' = ss /\ mem' = mem]_vars

\* the error was thrown in a session whose token set has no refresh token
C8_Witness ==
    ev = "threw_no_refresh_token" /\ ls.access # Null /\ ls.refresh = Null

\* C9 as stated: logout() called while the session is Anonymous issues no
\* revoke request and leaves the session Anonymous.
C9_Original ==
    [][(Anonymous(mem) /\ Logout) =>
          (revokes' = revokes /\ Anonymous(mem'))]_vars

\* C9 as amended: logout() called while the session is Anonymous and no
\* access token is in durable storage issues no request, returns in the
\* same segment and leaves the session Anonymous.
C9_LogoutWithoutToken ==
    [][(Anonymous(mem) /\ ls.access = Null /\ Logout) =>
          /\ ev' = "logout_returned_sync"
          /\ revokes' = revokes /\ rf' = rf /\ cb' = cb
          /\ Anonymous(mem')]_vars

\* logout() has returned at once in an Anonymous session
C9_Witness ==
    ev = "logout_returned_sync" /\ Anonymous(mem) /\ ls = EmptyLs

\* C10: however the revoke request ends, the rest of logout runs without
\* throwing, removes every durable key and leaves the session Anonymous.
C10_LogoutSurvivesRevoke ==
    [][\A o \in Outcomes :
          (revokes > 0 /\ LogoutResume(o)) =>
             /\ ev' = "logout_returned"
             /\ ls' = EmptyLs
             /\ Anonymous(mem')]_vars

\* a logout that waited for its revoke request has completed
C10_Witness == ev = "logout_returned" /\ ls = EmptyLs /\ Anonymous(mem)


\* durable storage holds nothing initAuth can use: no access token, or an
\* expired one and no refresh token
NoUsableCredential ==
    \/ ls.access = Null
    \/ ExpiredUnderGrace(ls, now) /\ ls.refresh = Null

\* C11: at startup with no access token stored, or an expired one and no
\* refresh token, the first segment of initAuth ends Restoring with the
\* session Anonymous, puts no request in flight and leaves storage alone.
C11_StartupAnonymous ==
    [][(initPc = "start" /\ NoUsableCredential /\ InitAuth) =>
          /\ initPc' = "done"
          /\ ~mem'.isLoading
          /\ Anonymous(mem')
          /\ rf' = rf /\ revokes' = revokes /\ cb' = cb
          /\ ls' = ls /\ ss' = ss]_vars

\* startup has resolved to Anonymous over an expired token that has no
\* refresh token
C11_Witness ==
    /\ initPc = "done" /\ ~mem.isLoading /\ Anonymous(mem)
    /\ ls.access # Null /\ ls.refresh = Null /\ ExpiredUnderGrace(ls, now)
    /\ rf["init"] = "idle" /\ revokes = 0


\* C12 as stated: at startup with a stored, non-expired access token the
\* first segment of initAuth marks the session Authenticated with the
\* cached identity and ends Restoring without waiting for the identity
\* fetch; and the fetch, however it ends, leaves the session Authenticated
\* and the stored tokens untouched.
C12_Original ==
    [][/\ (initPc = "start" /\ ValidToken /\ InitAuth) =>
             /\ mem'.isAuthenticated
             /\ mem'.userInfo = ls.userinfo
             /\ ~mem'.isLoading
       /\ \A o \in Outcomes :
             (initPc = "lui" /\ InitLoaded(o)) =>
                /\ mem'.isAuthenticated = mem.isAuthenticated
                /\ ~mem'.isLoading
                /\ ls'.access = ls.access /\ ls'.refresh = ls.refresh
                /\ ls'.id = ls.id /\ ls'.expiry = ls.expiry]_vars

\* the session is Authenticated from storage and still Restoring: the
\* identity fetch is pending
C12_Witness ==
    /\ initPc = "lui"
    /\ mem.isAuthenticated /\ mem.accessToken = ls.access
    /\ mem.isLoading


\* durable storage holds an access token expired under the grace rule and
\* a refresh token
ExpiredWithRefreshToken ==
    ls.access # Null /\ ExpiredUnderGrace(ls, now) /\ ls.refresh # Null

\* C13: at startup with an expired access token and a refresh token,
\* initAuth issues one refresh request and stays Restoring; no second
\* refresh request of initAuth follows in that page; a successful response
\* is stored with expiry now + expires_in * 1000 and the session is set
\* Authenticated; and when refreshToken returns, Restoring ends with the
\* session Authenticated.
C13_StartupRefresh ==
    [][/\ (initPc = "start" /\ ExpiredWithRefreshToken /\ InitAuth) =>
             /\ initPc' = "refresh"
             /\ rf["init"] = "idle" /\ rf'["init"] = "refresh"
             /\ rf'["app"] = rf["app"]
             /\ mem'.isLoading /\ ls' = ls
       /\ (initPc # "start" /\ rf'["init"] = "refresh") =>
             rf["init"] = "refresh"
       /\ (initPc = "refresh" /\ mem.isLoading) => rf["init"] # "idle"
       /\ \A reply \in TokenReplies :
             (initPc = "refresh" /\ reply[1] = "ok"
                 /\ RefreshSettled("init", reply[1], reply[2])) =>
                /\ ls'.access = reply[2].access_token
                /\ ls'.expiry =
                      NumberToString(now + reply[2].expires_in * MsPerSecond)
                /\ mem'.isAuthenticated
                /\ mem'.accessToken = reply[2].access_token
       /\ \A o \in Outcomes :
             (initPc = "refresh" /\ RefreshLoaded("init", o)) =>
                /\ initPc' = "done"
                /\ ~mem'.isLoading
                /\ mem'.isAuthenticated /\ mem'.accessToken = ls'.access]_vars

\* the startup refresh has succeeded: the new token set is stored and the
\* session is Authenticated
C13_Witness ==
    /\ initPc = "refresh" /\ rf["init"] = "lui"
    /\ mem.isAuthenticated /\ mem.accessToken = ls.access
    /\ ls.access = issued /\ issued > 1


\* C14: login() stashes the verifier and the state it generated; a
\* handleCallback call carrying that state, made with no valid token
\* stored (as is the case whenever the session is Anonymous), issues the
\* exchange with that verifier; when the provider accepts, the response is
\* stored with expiry now + expires_in * 1000 and the session is set
\* Authenticated; and handleCallback then returns without error.
C14_LoginThenCallback ==
    /\ []((Anonymous(mem) /\ ~mem.isLoading) => ~ValidToken)
    /\ [][/\ \A a \in 1..MaxLogins :
                (a \in lg /\ LoginStash(a)) =>
                   (ss'.verifier = a /\ ss'.state = a)
          /\ \A i \in Callbacks, code \in Codes :
                (AttemptStashed /\ ~ValidToken /\ ss.state # Null
                    /\ AuthCallback(i, code, ss.state)) =>
                   (cb'[i].pc = "exchange" /\ cb'[i].cv = ss.verifier)
          /\ \A i \in Callbacks, reply \in TokenReplies :
                (cb[i].pc = "exchange" /\ reply[1] = "ok"
                    /\ CallbackExchanged(i, reply[1], reply[2])) =>
                   /\ ls'.access = reply[2].access_token
                   /\ ls'.expiry =
                      NumberToString(now + reply[2].expires_in * MsPerSecond)
                   /\ mem'.isAuthenticated
                   /\ mem'.accessToken = reply[2].access_token
          /\ \A i \in Callbacks, o \in Outcomes :
                (cb[i].pc = "lui" /\ CallbackLoaded(i, o)) =>
                   ev' = "returned"]_vars

\* one login, one callback, one token response: the handler has returned
\* and the session is Authenticated with the stored token
C14_Witness ==
    /\ ev = "returned" /\ attempts = 1 /\ issued = 1
    /\ mem.isAuthenticated /\ mem.accessToken = ls.access /\ ls.access = 1
    /\ ss = EmptySs


\* the instants an expiry in storage can stand for
ExpiryInstants ==
    AroundWindows(MaxExpirySteps)
        \cup {t + e * MsPerSecond : t \in ClockReadings, e \in ExpiresInValues}

\* C15: isTokenExpired answers true exactly when now >= expiry - 60000 ms,
\* the boundary instant included, for every stored expiry, and true when no
\* expiry is stored.
C15_GraceBoundary ==
    /\ ev = "expired" =>
          \/ ls.expiry = NoText
          \/ \E n \in ExpiryInstants :
                ls.expiry = NumberToString(n) /\ now >= n - GraceMs
    /\ ev = "not_expired" =>
          /\ ls.expiry # NoText
          /\ \E n \in ExpiryInstants :
                ls.expiry = NumberToString(n) /\ now < n - GraceMs

\* the check has answered true at the boundary instant itself
C15_Witness ==
    /\ ev = "expired"
    /\ now > 0
    /\ ls.expiry = NumberToString(now + GraceMs)


\* C16: when the exchange request fails (non-2xx response or network
\* error), handleCallback throws to the route, puts no further exchange
\* request in flight (the attempt is gone from ephemeral storage), writes
\* nothing to durable storage and leaves the in-memory session as it was,
\* Anonymous when it was Anonymous.
C16_ExchangeSingleAttempt ==
    [][\A i \in Callbacks, o \in Failures :
          (cb[i].pc = "exchange" /\ CallbackExchanged(i, o, NoResponse)) =>
             /\ ev' = "threw_exchange_failed"
             /\ cb'[i] = IdleCb
             /\ ~ExchangeIssued
             /\ ss' = ss /\ ss.verifier # cb[i].cv
             /\ ls' = ls /\ issued' = issued
             /\ mem' = mem]_vars

\* the exchange has failed: nothing is stored, the session is Anonymous
\* and no request is in flight
C16_Witness ==
    /\ ev = "threw_exchange_failed"
    /\ ls = EmptyLs /\ Anonymous(mem)
    /\ \A i \in Callbacks : cb[i] = IdleCb


\* C17 as stated: once logoutFromFrappeSession() waits for the hidden
\* iframe, durable storage is eventually purged and the session Anonymous
\* (the page living on), whether or not the iframe ever loads or fails.
C17_Original ==
    (fl.pc = "iframe") ~> (Purged \/ ev = "page_load")

\* logoutFromFrappeSession() waits for the iframe while the session is
\* Authenticated and its tokens are stored
C17_Witness ==
    /\ fl.pc = "iframe" /\ fl.token # Null
    /\ mem.isAuthenticated /\ ls.access = fl.token


\* the session is Authenticated, a refresh token is stored and the stored
\* access token is inside its 60 second grace window or past it
DueForRefresh ==
    /\ mem.isAuthenticated /\ ~mem.isLoading
    /\ ls.refresh # Null
    /\ ExpiredUnderGrace(ls, now)

\* C18 as stated: whenever the session is Authenticated with a refresh
\* token stored and the access token has reached 60 seconds before its
\* expiry, the provider component itself eventually issues a refresh
\* request (unless the session has ended or the token has been replaced
\* meanwhile).
C18_Original ==
    DueForRefresh ~> (rf["init"] = "refresh" \/ ~DueForRefresh)

\* an Authenticated session whose token is due for refresh, with no
\* refresh request and no logout in flight
C18_Witness ==
    /\ DueForRefresh
    /\ initPc = "done"
    /\ \A c \in Callers : rf[c] = "idle"
    /\ revokes = 0


\* C19 as stated: with storage unavailable no TokenStorage method throws,
\* every read and take returns empty, isTokenExpired answers true, and
\* nothing is written.
C19_Original ==
    [][\A op \in StorageOps, e \in ExpiresInValues :
          (storage # "available" /\ TokenStorageCall(op, e)) =>
             /\ ev' # "threw"
             /\ op \in StorageReads \cup StorageTakes => ev' = "returned_empty"
             /\ op = "isTokenExpired" => ev' = "returned_true"
             /\ op \in StorageWrites => (ls' = ls /\ ss' = ss)]_vars

\* a TokenStorage method has thrown into its caller while every storage
\* access throws
C19_Witness == storage = "denied" /\ ev = "threw"


\* the in-memory session of a signed-in user
Authenticated(m) == m.isAuthenticated /\ m.accessToken # Null

\* C20 as stated: in every reachable state the in-memory session is either
\* Authenticated (authenticated true, access token non-empty) or Anonymous
\* (authenticated false; access token, identity and decoded id token
\* empty).
C20_Original == Authenticated(mem) \/ Anonymous(mem)

\* after a logout has cleared everything, an identity fetch that was in
\* flight has put an identity into a session that is not authenticated
C20_Witness ==
    /\ ~mem.isAuthenticated /\ mem.accessToken = Null
    /\ mem.userInfo # Null
    /\ ls.access = Null /\ ls.userinfo # Null


C22_NoAttemptNoop ==
    [][\A state \in States \ {Null} :
          (~ValidToken /\ ~AttemptStashed /\ HandlerCalled(state)) =>
             /\ ev' = "noop_no_verifier"
             /\ ~ExchangeIssued
             /\ cb' = cb /\ rf' = rf /\ revokes' = revokes
             /\ ls' = ls /\ ss' = ss /\ mem' = mem]_vars

\* a second invocation has returned as a no-op while the first, which took
\* the attempt, is suspended on its exchange request
C22_Witness ==
    /\ ev = "noop_no_verifier"
    /\ ~mem.isAuthenticated /\ ss = EmptySs
    /\ \E i \in Callbacks : cb[i].pc = "exchange"


\* durable storage holds exactly the tokens of the response
HoldsTokenSet(l, response) ==
    /\ l.access = response.access_token
    /\ l.refresh = response.refresh_token
    /\ l.id = response.id_token

\* C23 as stated: after a successful exchange or refresh the stored access
\* token, refresh token and id token are exactly those of the token
\* response; a token the response does not carry is absent from storage.
C23_Original ==
    [][/\ \A i \in Callbacks, reply \in TokenReplies :
             (cb[i].pc = "exchange" /\ reply[1] = "ok"
                 /\ CallbackExchanged(i, reply[1], reply[2])) =>
                HoldsTokenSet(ls', reply[2])
       /\ \A c \in Callers, reply \in TokenReplies :
             (rf[c] = "refresh" /\ reply[1] = "ok"
                 /\ RefreshSettled(c, reply[1], reply[2])) =>
                HoldsTokenSet(ls', reply[2])]_vars

\* a refresh has stored its response and the refresh token and id token
\* of the response before are still in storage
C23_Witness ==
    /\ \E c \in Callers : rf[c] = "lui"
    /\ ls.access = issued /\ issued > 1
    /\ ls.refresh # Null /\ ls.refresh < ls.access
    /\ ls.id # Null /\ ls.id < ls.access


\* the verifier and state numbered a are stashed, in flight in an exchange,
\* or held by a login() call that has not stashed them yet
AttemptKnown(a) ==
    \/ ss.verifier = a \/ ss.state = a
    \/ a \in lg
    \/ \E i \in Callbacks : cb[i].cv = a

\* C24: every login() call generates a verifier/state pair no earlier call
\* generated; the segment that sends the browser to the provider has
\* stashed exactly that pair, replacing whatever was stashed; and neither
\* segment of login() changes durable storage or the in-memory session.
C24_LoginFreshAttempt ==
    [][/\ Login =>
             /\ lg' = lg \cup {attempts + 1}
             /\ ~AttemptKnown(attempts + 1)
             /\ ls' = ls /\ mem' = mem /\ ss' = ss
       /\ \A a \in 1..MaxLogins :
             (a \in lg /\ LoginStash(a)) =>
                /\ ev' = "login_navigated"
                /\ ss' = [verifier |-> a, state |-> a]
                /\ ls' = ls /\ mem' = mem]_vars

\* a second login() has replaced the stashed attempt of the first
C24_Witness ==
    /\ ev = "login_navigated"
    /\ attempts = 2 /\ lg = {}
    /\ ss = [verifier |-> 2, state |-> 2]


\* C25 as stated: whenever handleCallback has returned to the route, which
\* then pushes the dashboard, a present, non-expired durable access token
\* is stored; and a callback made with no valid token and no attempt
\* stashed ends on the route's error screen.
C25_Original ==
    /\ [](ev \in Returned => ValidToken)
    /\ [][\A state \in States \ {Null} :
             (~ValidToken /\ ~AttemptStashed /\ HandlerCalled(state)) =>
                ev' \in Threw]_vars

\* the route pushes the dashboard although nothing is stored, the session
\* is Anonymous and no exchange is in flight
C25_Witness ==
    /\ ev = "noop_no_verifier"
    /\ ls = EmptyLs /\ Anonymous(mem)
    /\ \A i \in Callbacks : cb[i] = IdleCb


\* C26: with several handleCallback invocations in flight, no two exchange
\* requests carry the same verifier at once; the segment that issues an
\* exchange request takes the verifier out of sessionStorage, and no other
\* invocation holds it; and a verifier enters sessionStorage only from the
\* login() call that generated it, once.  So each attempt is exchanged at
\* most once.
C26_OneExchangePerAttempt ==
    /\ [](\A i, j \in Callbacks :
             (cb[i].pc = "exchange" /\ cb[j].pc = "exchange"
                 /\ cb[i].cv = cb[j].cv) => i = j)
    /\ [][/\ \A i \in Callbacks :
                (cb[i].pc # "exchange" /\ cb'[i].pc = "exchange") =>
                   /\ cb'[i].cv # Null /\ cb'[i].cv = ss.verifier
                   /\ ss'.verifier = Null
                   /\ \A j \in Callbacks : cb[j].cv # cb'[i].cv
          /\ \A a \in 1..MaxLogins :
                /\ (ss.verifier # a /\ ss'.verifier = a) =>
                      (a \in lg /\ a \notin lg')
                /\ (a \notin lg /\ a \in lg') => a = attempts'
          /\ attempts' >= attempts]_vars

\* the first invocation is suspended on the exchange of attempt 1 and the
\* second, started meanwhile, has returned without a request
C26_Witness ==
    /\ cb[1] = [pc |-> "exchange", cv |-> 1]
    /\ cb[2] = IdleCb
    /\ ev = "noop_no_verifier"
    /\ attempts = 1


\* the startup refresh is in flight and handleCallback has stored the
\* token set of its exchange and set the session Authenticated
CallbackStoredDuringRefresh ==
    /\ rf["init"] = "refresh"
    /\ \E i \in Callbacks : cb[i].pc = "lui"
    /\ ls.access = issued
    /\ mem.isAuthenticated /\ mem.accessToken = ls.access

\* C27 as stated: when the startup refresh fails after handleCallback has
\* stored fresh tokens, the failure starts no logout: no revoke request is
\* issued for the tokens of the callback and they stay stored with the
\* session Authenticated.
C27_Original ==
    [][\A o \in Failures :
          (CallbackStoredDuringRefresh
              /\ RefreshSettled("init", o, NoResponse)) =>
             /\ revokes' = revokes
             /\ ls' = ls
             /\ mem'.isAuthenticated]_vars

\* the startup refresh has failed and the logout it started is revoking
\* the access token that handleCallback stored
C27_Witness ==
    /\ ev = "threw_refresh_failed" /\ initPc = "done"
    /\ revokes > 0
    /\ \E i \in Callbacks : cb[i].pc = "lui"
    /\ ls.access = issued /\ mem.accessToken = ls.access


\* C28 as stated: the segment in which the startup refresh fails issues at
\* most one revoke request.
C28_Original ==
    [][\A o \in Failures :
          (rf["init"] = "refresh" /\ RefreshSettled("init", o, NoResponse)) =>
             revokes' <= revokes + 1]_vars

\* the startup refresh has failed and two logout sequences, each with its
\* own revoke request for the stored access token, are in flight
C28_Witness ==
    /\ ev = "threw_refresh_failed" /\ initPc = "done"
    /\ revokes = 2
    /\ ls.access # Null
    /\ \A i \in Callbacks : cb[i] = IdleCb


\* the segment is the continuation of an operation that was suspended on
\* a request: a code exchange, a token refresh or an identity fetch
ContinuesInFlight ==
    \/ \E i \in Callbacks : cb[i].pc \in {"exchange", "lui"} /\ cb'[i] # cb[i]
    \/ \E c \in Callers : rf[c] \in {"refresh", "lui"} /\ rf'[c] # rf[c]
    \/ initPc = "lui" /\ initPc' # initPc

\* C29 as stated: when logout() has just purged durable storage and reset
\* the session, the continuation of an operation that was in flight writes
\* nothing to durable storage and does not set the session Authenticated.
C29_Original ==
    [][(ev \in {"logout_returned", "logout_returned_sync"} /\ Purged
           /\ ContinuesInFlight) =>
          (ls' = EmptyLs /\ ~mem'.isAuthenticated)]_vars

\* handleCallback has returned after a logout purged everything: the
\* identity its fetch brought is cached in durable storage with no token
\* stored and nobody signed in
C29_Witness ==
    /\ ev = "returned"
    /\ ~mem.isAuthenticated
    /\ ls.access = Null /\ ls.userinfo = UserProfile
    /\ revokes = 0


\* C30: in every reachable state sessionStorage holds either no PKCE
\* attempt, or a verifier and a state generated by the same login() call.
C30_AttemptPairConsistent ==
    \/ ss.verifier = Null /\ ss.state = Null
    \/ ss.verifier # Null /\ ss.state = ss.verifier

\* two login() calls overlap: the second has stashed its pair while the
\* first is still suspended in getAuthorizationUrl
C30_Witness ==
    /\ lg = {1}
    /\ ss = [verifier |-> 2, state |-> 2]
    /\ ev = "login_navigated"

====
